---- MODULE Spec2Model ----
(***************************************************************************)
(* Model of the text-comparison tool (delimited-file keyed diff).          *)
(*                                                                         *)
(* Strings are sequences of one-character strings, so that trim, split,    *)
(* toLowerCase and endsWith are computed as the JavaScript computes them.  *)
(* A JavaScript object used as a record (a parsed row, a differences map)  *)
(* is a function whose DOMAIN is the set of its own property names; a read *)
(* of a name that is not an own property goes to Object.prototype, as in   *)
(* the language (see Get).                                                 *)
(***************************************************************************)
EXTENDS Integers, Sequences, FiniteSets, TLC

VARIABLES
    fileData,              \* { file1, file2 }: parsed dataset or Null
    originalFileContents,  \* { file1, file2 }: raw text or Null
    originalFileNames,     \* { file1, file2 }: file name or Null
    comparisonResult,      \* last stored ComparisonResult or Null
    delimiterSelect,       \* value of the #delimiter <select>
    keyColumnSelect,       \* value of the #keyColumn <select>
    timers,                \* pending setTimeout callbacks of compareFiles
    lastError,             \* last message shown by showError or alert ("none" if none)
    call,                  \* arguments of the pure function under study
    ret                    \* its return value

vars == <<fileData, originalFileContents, originalFileNames, comparisonResult,
          delimiterSelect, keyColumnSelect, timers, lastError, call, ret>>

-----------------------------------------------------------------------------
(* Characters and JavaScript values                                        *)

TAB == "\t"
LF == "\n"
CR == "\r"
SP == " "
COMMA == ","
SEMI == ";"
PIPE == "|"

\* Faulty variant: the carriage return is not trimmed.
WhiteSpace_NoCR == {SP, TAB, LF}

\* String.prototype.trim removes these from both ends (the white space and
\* line terminators that occur in the modelled alphabet).
WhiteSpace == {SP, TAB, LF, CR}

EmptyStr == <<>>

\* Values that are not strings.  Each is a one-element sequence whose element
\* is not a character, so it differs from every string.
Undefined == <<"[undefined]">>
Null == <<"[null]">>
\* A method inherited from Object.prototype (constructor, toString, ...).
InheritedFunction == <<"[function]">>
\* Object.prototype itself, the value of the inherited accessor __proto__.
ObjectPrototype == <<"[Object.prototype]">>

NonStrings == {Undefined, Null, InheritedFunction, ObjectPrototype}

IsString(v) == v \notin NonStrings

\* JavaScript truthiness of the modelled values.
Truthy(v) == v # Undefined /\ v # Null /\ v # EmptyStr

NameProto == <<"_", "_", "p", "r", "o", "t", "o", "_", "_">>
NameConstructor == <<"c", "o", "n", "s", "t", "r", "u", "c", "t", "o", "r">>

\* Names of the data properties every object inherits from Object.prototype
\* (those that occur in the modelled inputs).
InheritedNames == {NameConstructor}

SetMin(S) == CHOOSE x \in S : \A y \in S : x <= y
SetMax(S) == CHOOSE x \in S : \A y \in S : x >= y

-----------------------------------------------------------------------------
(* String operations                                                       *)

\* String.prototype.trim
Trim(s) ==
    LET keep == {i \in 1..Len(s) : s[i] \notin WhiteSpace}
    IN  IF keep = {} THEN EmptyStr ELSE SubSeq(s, SetMin(keep), SetMax(keep))

UpperCase == <<"A", "B", "C", "D", "E", "F", "G", "H", "I", "J", "K", "L", "M",
               "N", "O", "P", "Q", "R", "S", "T", "U", "V", "W", "X", "Y", "Z">>
LowerCase == <<"a", "b", "c", "d", "e", "f", "g", "h", "i", "j", "k", "l", "m",
               "n", "o", "p", "q", "r", "s", "t", "u", "v", "w", "x", "y", "z">>

\* String.prototype.toLowerCase, one character
LowerChar(c) ==
    IF \E i \in 1..Len(UpperCase) : UpperCase[i] = c
    THEN LowerCase[CHOOSE i \in 1..Len(UpperCase) : UpperCase[i] = c]
    ELSE c

ToLowerCase(s) == [i \in 1..Len(s) |-> LowerChar(s[i])]

\* String.prototype.endsWith
EndsWith(s, suffix) ==
    /\ Len(suffix) <= Len(s)
    /\ SubSeq(s, Len(s) - Len(suffix) + 1, Len(s)) = suffix

\* String.prototype.split with a one-character separator: the pieces between
\* the separators; the empty string splits into one empty piece.
SplitChar(s, d) ==
    LET cuts == {i \in 1..Len(s) : s[i] = d}
        n == Cardinality(cuts)
        \* position of the j-th separator, 0 before the first, Len+1 after the last
        cut[j \in 0..(n + 1)] ==
            IF j = 0 THEN 0
            ELSE IF j = n + 1 THEN Len(s) + 1
            ELSE CHOOSE i \in cuts : Cardinality({c \in cuts : c < i}) = j - 1
    IN  [j \in 1..(n + 1) |-> SubSeq(s, cut[j - 1] + 1, cut[j] - 1)]

\* String.prototype.split(/\r?\n/): cut at every line feed, and the carriage
\* return right before a line feed belongs to the separator.
SplitLines(s) ==
    LET raw == SplitChar(s, LF)
        n == Len(raw)
        strip(p) == IF Len(p) > 0 /\ p[Len(p)] = CR THEN SubSeq(p, 1, Len(p) - 1) ELSE p
    IN  [j \in 1..n |-> IF j < n THEN strip(raw[j]) ELSE raw[j]]

\* (line.match(/d/g) || []).length
CountChar(s, d) == Cardinality({i \in 1..Len(s) : s[i] = d})

-----------------------------------------------------------------------------
(* Delimiter resolver                                                      *)

ExtCsv == <<".", "c", "s", "v">>
ExtTsv == <<".", "t", "s", "v">>

\* What a read of an inherited method gives where a delimiter is expected:
\* a function, which is no character.
InheritedMethod == "[function]"

\* delimiterMap[selectedDelimiter] || '\t'.  delimiterMap is an object
\* literal, so a name it does not own is looked up in Object.prototype.
DelimiterMap(selected) ==
    CASE selected = "tab" -> TAB
      [] selected = "comma" -> COMMA
      [] selected = "semicolon" -> SEMI
      [] selected = "pipe" -> PIPE
      [] selected = "constructor" -> InheritedMethod
      [] OTHER -> TAB

Priority == <<TAB, COMMA, SEMI, PIPE>>

\* No delimiter decided yet (getDelimiter falls through to its next test).
Undecided == ""

\* Faulty variant: the extension is tested on the file name as given.
ExtensionDelimiter_CaseSensitive(filename) ==
    IF EndsWith(filename, ExtCsv) THEN COMMA
    ELSE IF EndsWith(filename, ExtTsv) THEN TAB
    ELSE Undecided

\* The extension test of getDelimiter: the delimiter the file name decides,
\* or Undecided.
ExtensionDelimiter(filename) ==
    LET lowerFilename == ToLowerCase(filename)
    IN  IF EndsWith(lowerFilename, ExtCsv) THEN COMMA
        ELSE IF EndsWith(lowerFilename, ExtTsv) THEN TAB
        ELSE Undecided

\* Faulty variant: the last candidate in priority order that reaches the
\* maximum is taken.
SampleDelimiter_LastMax(firstLine) ==
    LET counts == [d \in {TAB, COMMA, SEMI, PIPE} |-> CountChar(firstLine, d)]
        maxCount == SetMax({counts[d] : d \in DOMAIN counts})
        hits == {i \in 1..Len(Priority) : counts[Priority[i]] = maxCount}
    IN  IF maxCount = 0 THEN TAB ELSE Priority[SetMax(hits)]

\* The content sampling of getDelimiter: the first candidate in priority order
\* whose count in the first line is the maximum; tab when every count is 0.
SampleDelimiter(firstLine) ==
    LET counts == [d \in {TAB, COMMA, SEMI, PIPE} |-> CountChar(firstLine, d)]
        maxCount == SetMax({counts[d] : d \in DOMAIN counts})
        hits == {i \in 1..Len(Priority) : counts[Priority[i]] = maxCount}
    IN  IF maxCount = 0 THEN TAB ELSE Priority[SetMin(hits)]

\* Faulty variant: the extension is tested before the manual selection.
getDelimiter_ExtensionFirst(content, filename, selectedDelimiter) ==
    LET byExt == ExtensionDelimiter(filename)
    IN  IF byExt # Undecided THEN byExt
        ELSE IF selectedDelimiter # "auto" THEN DelimiterMap(selectedDelimiter)
        ELSE SampleDelimiter(SplitLines(content)[1])

getDelimiter(content, filename, selectedDelimiter) ==
    IF selectedDelimiter # "auto" THEN DelimiterMap(selectedDelimiter)
    ELSE LET firstLine == SplitLines(content)[1]
             byExt == ExtensionDelimiter(filename)
         IN  IF byExt # Undecided THEN byExt ELSE SampleDelimiter(firstLine)

getDelimiterName(delimiter) ==
    CASE delimiter = TAB -> "tab-name"
      [] delimiter = COMMA -> "comma-name"
      [] delimiter = SEMI -> "semicolon-name"
      [] delimiter = PIPE -> "pipe-name"
      [] OTHER -> "other"

-----------------------------------------------------------------------------
(* Row parser                                                              *)

\* The outcome of parseFile: a dataset, or the Error it throws.
Thrown(message) == [ok |-> FALSE, error |-> message]

\* row[name] = value: an own property, except that the inherited setter of
\* __proto__ ignores a string.  With duplicate header names the last wins.
OwnNames(headers) == {headers[i] : i \in 1..Len(headers)} \ {NameProto}

\* (values[index] || '').trim()
FieldAt(values, index) == IF index <= Len(values) THEN Trim(values[index]) ELSE EmptyStr

RowOf(headers, values) ==
    [h \in OwnNames(headers) |->
        FieldAt(values, SetMax({i \in 1..Len(headers) : headers[i] = h}))]

\* Faulty variant: no record counts as completely empty.
HasValue_Always(row) == TRUE

\* Object.values(row).some(val => val !== '')
HasValue(row) == \E h \in DOMAIN row : row[h] # EmptyStr

\* Faulty variant: the records are collected last line first.
ParseRows_Reversed(lines, headers, delimiter) ==
    LET cand == [j \in 1..(Len(lines) - 1) |->
                    LET line == Trim(lines[Len(lines) + 1 - j])
                        row == RowOf(headers, SplitChar(line, delimiter))
                    IN  [keep |-> line # EmptyStr /\ HasValue(row), row |-> row]]
        Keep(c) == c.keep
        kept == SelectSeq(cand, Keep)
    IN  [j \in 1..Len(kept) |-> kept[j].row]

\* The loop over lines[1..]: a blank line is skipped, and so is a line whose
\* record holds only empty strings; the others are pushed in line order.
ParseRows(lines, headers, delimiter) ==
    LET cand == [j \in 1..(Len(lines) - 1) |->
                    LET line == Trim(lines[j + 1])
                        row == RowOf(headers, SplitChar(line, delimiter))
                    IN  [keep |-> line # EmptyStr /\ HasValue(row), row |-> row]]
        Keep(c) == c.keep
        kept == SelectSeq(cand, Keep)
    IN  [j \in 1..Len(kept) |-> kept[j].row]

\* Faulty variant: a header line and two more lines are demanded.
TooFewLines_Three(lines) == Len(lines) < 3

\* lines.length < 2
TooFewLines(lines) == Len(lines) < 2

\* Faulty variant: the headers are not examined.
HasEmptyHeader_Never(headers) == FALSE

\* headers.some(header => header === '')
HasEmptyHeader(headers) == \E i \in 1..Len(headers) : headers[i] = EmptyStr

parseFile(content, filename, selectedDelimiter) ==
    IF ~Truthy(content) \/ Trim(content) = EmptyStr THEN Thrown("file is empty")
    ELSE
    LET lines == SplitLines(Trim(content))
    IN  IF TooFewLines(lines) THEN Thrown("header and data rows required")
        ELSE
        LET delimiter == getDelimiter(content, filename, selectedDelimiter)
            rawHeaders == SplitChar(lines[1], delimiter)
            headers == [i \in 1..Len(rawHeaders) |-> Trim(rawHeaders[i])]
        IN  IF HasEmptyHeader(headers)
            THEN Thrown("empty header present")
            ELSE
            LET rows == ParseRows(lines, headers, delimiter)
            IN  IF Len(rows) = 0 THEN Thrown("no data rows found")
                ELSE [ok |-> TRUE, headers |-> headers, rows |-> rows,
                      delimiter |-> getDelimiterName(delimiter)]

-----------------------------------------------------------------------------
(* Diff engine                                                             *)

\* null, for a variable that otherwise holds a record
NullRecord == [null |-> TRUE]

\* obj[name]: the own property, else what Object.prototype gives.
Get(obj, name) ==
    IF name \in DOMAIN obj THEN obj[name]
    ELSE IF name = NameProto THEN ObjectPrototype
    ELSE IF name \in InheritedNames THEN InheritedFunction
    ELSE Undefined

\* A Map is the sequence of its entries in insertion order.
MapHas(m, key) == \E i \in 1..Len(m) : m[i].key = key

MapGet(m, key) == m[CHOOSE i \in 1..Len(m) : m[i].key = key].value

\* Map.prototype.set: an existing key keeps its place and takes the new value.
MapSet(m, key, value) ==
    IF MapHas(m, key)
    THEN [i \in 1..Len(m) |-> IF m[i].key = key THEN [key |-> key, value |-> value] ELSE m[i]]
    ELSE Append(m, [key |-> key, value |-> value])

\* key && key.trim() !== '' on a value that is not a string: trim is not a
\* function, a TypeError.
KeyThrows(row, keyColumn) ==
    LET key == Get(row, keyColumn) IN Truthy(key) /\ ~IsString(key)

\* Faulty variant: every row is indexed, whatever its key.
KeyIndexed_NoBlankCheck(row, keyColumn) == IsString(Get(row, keyColumn))

\* if (key && key.trim() !== '')
KeyIndexed(row, keyColumn) ==
    LET key == Get(row, keyColumn)
    IN  Truthy(key) /\ IsString(key) /\ Trim(key) # EmptyStr

\* rows.forEach(row => { ... mapN.set(key, row) }) over the first n rows
RECURSIVE BuildIndex(_, _, _)
BuildIndex(rows, keyColumn, n) ==
    IF n = 0 THEN <<>>
    ELSE LET m == BuildIndex(rows, keyColumn, n - 1)
             row == rows[n]
         IN  IF KeyIndexed(row, keyColumn) THEN MapSet(m, Get(row, keyColumn), row) ELSE m

\* (row[column] || '') before its .trim()
OrEmpty(row, column) ==
    LET raw == Get(row, column) IN IF Truthy(raw) THEN raw ELSE EmptyStr

\* Object.keys(row1) and Object.keys(row2) in one Set
AllColumns(row1, row2) == DOMAIN row1 \cup DOMAIN row2

\* (row[column] || '').trim() throws for a value that is not a string.
ColumnThrows(row1, row2) ==
    \E column \in AllColumns(row1, row2) :
        ~IsString(OrEmpty(row1, column)) \/ ~IsString(OrEmpty(row2, column))

\* Faulty variant: only the columns of the first record are compared.
Differences_Row1Columns(row1, row2) ==
    LET value1(column) == Trim(OrEmpty(row1, column))
        value2(column) == Trim(OrEmpty(row2, column))
    IN  [column \in {c \in DOMAIN row1 : value1(c) # value2(c)} |->
            [old |-> value1(column), new |-> value2(column)]]

\* The differences object of a changed entry: the columns of either record
\* whose trimmed values differ, each with its old and new value
Differences(row1, row2) ==
    LET value1(column) == Trim(OrEmpty(row1, column))
        value2(column) == Trim(OrEmpty(row2, column))
    IN  [column \in {c \in AllColumns(row1, row2) : value1(c) # value2(c)} |->
            [old |-> value1(column), new |-> value2(column)]]

\* Faulty variant: the membership test looks in the map being iterated.
AddedList_WrongMap(map1, map2) ==
    LET Only2(e) == ~MapHas(map2, e.key)
        sel == SelectSeq(map2, Only2)
    IN  [i \in 1..Len(sel) |-> [key |-> sel[i].key, data |-> sel[i].value, type |-> "added"]]

\* Faulty variant: the membership test is inverted.
AddedList_Inverted(map1, map2) ==
    LET In1(e) == MapHas(map1, e.key)
        sel == SelectSeq(map2, In1)
    IN  [i \in 1..Len(sel) |-> [key |-> sel[i].key, data |-> sel[i].value, type |-> "added"]]

\* map2.forEach: the entries of file 2 whose key file 1 lacks
AddedList(map1, map2) ==
    LET Only2(e) == ~MapHas(map1, e.key)
        sel == SelectSeq(map2, Only2)
    IN  [i \in 1..Len(sel) |-> [key |-> sel[i].key, data |-> sel[i].value, type |-> "added"]]

\* Faulty variant: the membership test looks in the map being iterated.
RemovedList_WrongMap(map1, map2) ==
    LET Only1(e) == ~MapHas(map1, e.key)
        sel == SelectSeq(map1, Only1)
    IN  [i \in 1..Len(sel) |-> [key |-> sel[i].key, data |-> sel[i].value, type |-> "removed"]]

\* Faulty variant: every entry of file 1 is listed as removed.
RemovedList_All(map1, map2) ==
    [i \in 1..Len(map1) |-> [key |-> map1[i].key, data |-> map1[i].value, type |-> "removed"]]

\* map1.forEach: the entries of file 1 whose key file 2 lacks
RemovedList(map1, map2) ==
    LET Only1(e) == ~MapHas(map2, e.key)
        sel == SelectSeq(map1, Only1)
    IN  [i \in 1..Len(sel) |-> [key |-> sel[i].key, data |-> sel[i].value, type |-> "removed"]]

\* Faulty variant: the keys of both maps are walked in the order of map 2.
CompareBoth_Map2Order(map1, map2) ==
    LET HasChanges(e) ==
            MapHas(map1, e.key) /\ DOMAIN Differences(MapGet(map1, e.key), e.value) # {}
        NoChanges(e) ==
            MapHas(map1, e.key) /\ DOMAIN Differences(MapGet(map1, e.key), e.value) = {}
        chg == SelectSeq(map2, HasChanges)
        unc == SelectSeq(map2, NoChanges)
    IN  [changed |->
            [i \in 1..Len(chg) |->
                [key |-> chg[i].key, data1 |-> MapGet(map1, chg[i].key),
                 data2 |-> chg[i].value,
                 differences |-> Differences(MapGet(map1, chg[i].key), chg[i].value),
                 type |-> "changed"]],
         unchanged |->
            [i \in 1..Len(unc) |->
                [key |-> unc[i].key, data |-> MapGet(map1, unc[i].key), type |-> "unchanged"]]]

\* The second map1.forEach: each key of map 1 that map 2 has is pushed to
\* changed when a column differs, else to unchanged.
CompareBoth(map1, map2) ==
    LET HasChanges(e) ==
            MapHas(map2, e.key) /\ DOMAIN Differences(e.value, MapGet(map2, e.key)) # {}
        NoChanges(e) ==
            MapHas(map2, e.key) /\ DOMAIN Differences(e.value, MapGet(map2, e.key)) = {}
        chg == SelectSeq(map1, HasChanges)
        unc == SelectSeq(map1, NoChanges)
    IN  [changed |->
            [i \in 1..Len(chg) |->
                [key |-> chg[i].key, data1 |-> chg[i].value,
                 data2 |-> MapGet(map2, chg[i].key),
                 differences |-> Differences(chg[i].value, MapGet(map2, chg[i].key)),
                 type |-> "changed"]],
         unchanged |->
            [i \in 1..Len(unc) |->
                [key |-> unc[i].key, data |-> unc[i].value, type |-> "unchanged"]]]

\* Faulty variant: the totals count the indexed keys.
Stats_IndexSizes(rows1, rows2, added, removed, changed, unchanged) ==
    [total1 |-> Len(removed) + Len(changed) + Len(unchanged),
     total2 |-> Len(added) + Len(changed) + Len(unchanged),
     added |-> Len(added), removed |-> Len(removed),
     changed |-> Len(changed), unchanged |-> Len(unchanged)]

\* The stats object of the result
Stats(rows1, rows2, added, removed, changed, unchanged) ==
    [total1 |-> Len(rows1), total2 |-> Len(rows2),
     added |-> Len(added), removed |-> Len(removed),
     changed |-> Len(changed), unchanged |-> Len(unchanged)]

TypeError == [threw |-> TRUE]

\* The body of performComparison on the rows of the two datasets: the result
\* object, or the TypeError thrown by a .trim() on a value that is no string.
Comparison(rows1, rows2, keyColumn) ==
        IF \/ \E i \in 1..Len(rows1) : KeyThrows(rows1[i], keyColumn)
           \/ \E i \in 1..Len(rows2) : KeyThrows(rows2[i], keyColumn)
        THEN TypeError
        ELSE
        LET map1 == BuildIndex(rows1, keyColumn, Len(rows1))
            map2 == BuildIndex(rows2, keyColumn, Len(rows2))
        IN  IF \E i \in 1..Len(map1) :
                  /\ MapHas(map2, map1[i].key)
                  /\ ColumnThrows(map1[i].value, MapGet(map2, map1[i].key))
            THEN TypeError
            ELSE
            LET added == AddedList(map1, map2)
                removed == RemovedList(map1, map2)
                both == CompareBoth(map1, map2)
            IN  [threw |-> FALSE,
                 added |-> added, removed |-> removed,
                 changed |-> both.changed, unchanged |-> both.unchanged,
                 stats |-> Stats(rows1, rows2, added, removed, both.changed, both.unchanged)]

\* performComparison reads the global fileData; fileData.fileN.rows on a
\* dataset that is null is a TypeError.
performComparison(keyColumn) ==
    IF fileData.file1 = NullRecord \/ fileData.file2 = NullRecord THEN TypeError
    ELSE Comparison(fileData.file1.rows, fileData.file2.rows, keyColumn)

-----------------------------------------------------------------------------
(* Handlers                                                                *)

\* updateKeyColumnOptions: the options are the headers of file 1 that file 2
\* has too, in file 1's order, and the first one is selected.
CommonHeaders(data1, data2) ==
    LET InData2(h) == \E i \in 1..Len(data2.headers) : data2.headers[i] = h
    IN  SelectSeq(data1.headers, InData2)

updateKeyColumnOptions(data) ==
    IF data.file1 # NullRecord /\ data.file2 # NullRecord
    THEN LET commonHeaders == CommonHeaders(data.file1, data.file2)
         IN  [options |-> commonHeaders,
              value |-> IF Len(commonHeaders) = 0 THEN EmptyStr ELSE commonHeaders[1]]
    ELSE [options |-> <<>>, value |-> EmptyStr]

\* Pending setTimeout callbacks kept by the model at one time
MaxTimers == 1

\* Faulty variant: the comparison is scheduled whatever the selection and the
\* datasets are.
compareFiles_NoGuard ==
    /\ Len(timers) < MaxTimers
    /\ timers' = Append(timers, keyColumnSelect.value)
    /\ UNCHANGED <<fileData, originalFileContents, originalFileNames, comparisonResult,
                   delimiterSelect, keyColumnSelect, lastError, call, ret>>

\* compareFiles: without a key column or without both datasets it alerts and
\* returns; else it schedules the comparison with the key column it read.
compareFiles ==
    /\ Len(timers) < MaxTimers
    /\ LET keyColumn == keyColumnSelect.value
       IN  IF ~Truthy(keyColumn)
           THEN lastError' = "select a key column" /\ UNCHANGED timers
           ELSE IF fileData.file1 = NullRecord \/ fileData.file2 = NullRecord
                THEN lastError' = "upload both files" /\ UNCHANGED timers
                ELSE timers' = Append(timers, keyColumn) /\ UNCHANGED lastError
    /\ UNCHANGED <<fileData, originalFileContents, originalFileNames, comparisonResult,
                   delimiterSelect, keyColumnSelect, call, ret>>

\* Faulty variant: the four lists outlive the call, so a run appends to the entries
\* of the run before.
comparisonTimeout_Accumulating ==
    /\ Len(timers) > 0
    /\ timers' = Tail(timers)
    /\ LET result == performComparison(Head(timers))
       IN  IF result.threw
           THEN lastError' = "comparison error" /\ UNCHANGED comparisonResult
           ELSE /\ comparisonResult' =
                     IF comparisonResult = NullRecord THEN result
                     ELSE [result EXCEPT !.added = comparisonResult.added \o @,
                                         !.removed = comparisonResult.removed \o @,
                                         !.changed = comparisonResult.changed \o @,
                                         !.unchanged = comparisonResult.unchanged \o @]
                /\ UNCHANGED lastError
    /\ UNCHANGED <<fileData, originalFileContents, originalFileNames,
                   delimiterSelect, keyColumnSelect, call, ret>>

\* The callback compareFiles passes to setTimeout: the result is stored, or
\* the error performComparison throws is shown.
comparisonTimeout ==
    /\ Len(timers) > 0
    /\ timers' = Tail(timers)
    /\ LET result == performComparison(Head(timers))
       IN  IF result.threw
           THEN lastError' = "comparison error" /\ UNCHANGED comparisonResult
           ELSE comparisonResult' = result /\ UNCHANGED lastError
    /\ UNCHANGED <<fileData, originalFileContents, originalFileNames,
                   delimiterSelect, keyColumnSelect, call, ret>>

Slots == {"file1", "file2"}

\* No file chosen in the file input (input.files[0] is undefined)
NoFile == [none |-> TRUE]

ValidExtensions ==
    { <<".", "t", "s", "v">>, <<".", "t", "x", "t">>,
      <<".", "c", "s", "v">>, <<".", "d", "a", "t">> }

IsValidFile(name) == \E ext \in ValidExtensions : EndsWith(ToLowerCase(name), ext)

\* Faulty variant: a load that fails empties the slot.
readerOnload_ClearsOnFailure(slot, file) ==
    LET data == parseFile(file.content, file.name, delimiterSelect)
    IN  /\ originalFileContents' = [originalFileContents EXCEPT ![slot] = file.content]
        /\ originalFileNames' = [originalFileNames EXCEPT ![slot] = file.name]
        /\ IF data.ok
           THEN /\ fileData' = [fileData EXCEPT ![slot] = data]
                /\ keyColumnSelect' = updateKeyColumnOptions([fileData EXCEPT ![slot] = data])
                /\ comparisonResult' = NullRecord
                /\ UNCHANGED lastError
           ELSE /\ fileData' = [fileData EXCEPT ![slot] = NullRecord]
                /\ lastError' = "parse error"
                /\ UNCHANGED <<keyColumnSelect, comparisonResult>>
        /\ UNCHANGED <<delimiterSelect, timers, call, ret>>

\* reader.onload of handleFile: the text and the name are retained, then the
\* text is parsed; the dataset is stored and the result reset, or the error
\* parseFile throws is shown.
readerOnload(slot, file) ==
    LET data == parseFile(file.content, file.name, delimiterSelect)
    IN  /\ originalFileContents' = [originalFileContents EXCEPT ![slot] = file.content]
        /\ originalFileNames' = [originalFileNames EXCEPT ![slot] = file.name]
        /\ IF data.ok
           THEN /\ fileData' = [fileData EXCEPT ![slot] = data]
                /\ keyColumnSelect' = updateKeyColumnOptions([fileData EXCEPT ![slot] = data])
                /\ comparisonResult' = NullRecord
                /\ UNCHANGED lastError
           ELSE /\ lastError' = "parse error"
                /\ UNCHANGED <<fileData, keyColumnSelect, comparisonResult>>
        /\ UNCHANGED <<delimiterSelect, timers, call, ret>>

\* handleFile, with the read it starts taken to its onload: no file chosen
\* empties the slot, a name with another extension is refused, any other
\* file is read and loaded.  (Between the change event and onload the
\* handler changes nothing.)
handleFile(slot, file) ==
    IF file = NoFile
    THEN /\ fileData' = [fileData EXCEPT ![slot] = NullRecord]
         /\ originalFileContents' = [originalFileContents EXCEPT ![slot] = Null]
         /\ originalFileNames' = [originalFileNames EXCEPT ![slot] = Null]
         /\ keyColumnSelect' = updateKeyColumnOptions([fileData EXCEPT ![slot] = NullRecord])
         /\ comparisonResult' = NullRecord
         /\ UNCHANGED <<delimiterSelect, timers, lastError, call, ret>>
    ELSE IF ~IsValidFile(file.name)
    THEN /\ lastError' = "unsupported file type"
         /\ UNCHANGED <<fileData, originalFileContents, originalFileNames, comparisonResult,
                        delimiterSelect, keyColumnSelect, timers, call, ret>>
    ELSE readerOnload(slot, file)

\* The delimiter <select> is changed to the value selected, and its change
\* listener reprocessFiles runs: the retained texts are parsed again, file 1
\* first; the first parse that throws ends the handler in its catch.
reprocessFiles(selected) ==
    LET Retained(slot) == Truthy(originalFileContents[slot]) /\ Truthy(originalFileNames[slot])
        Parse(slot) == parseFile(originalFileContents[slot], originalFileNames[slot], selected)
        Throws(slot) == Retained(slot) /\ ~Parse(slot).ok
        After(slot) == IF Retained(slot) THEN Parse(slot) ELSE fileData[slot]
    IN  /\ delimiterSelect' = selected
        /\ IF Throws("file1")
           THEN /\ lastError' = "reprocess error"
                /\ UNCHANGED <<fileData, keyColumnSelect, comparisonResult>>
           ELSE IF Throws("file2")
           THEN /\ fileData' = [fileData EXCEPT !.file1 = After("file1")]
                /\ lastError' = "reprocess error"
                /\ UNCHANGED <<keyColumnSelect, comparisonResult>>
           ELSE /\ fileData' = [file1 |-> After("file1"), file2 |-> After("file2")]
                /\ keyColumnSelect' =
                       updateKeyColumnOptions([file1 |-> After("file1"), file2 |-> After("file2")])
                /\ comparisonResult' = NullRecord
                /\ UNCHANGED lastError
        /\ UNCHANGED <<originalFileContents, originalFileNames, timers, call, ret>>

\* clearAll: data, retained texts, result and selections are reset.  Pending
\* timeouts are not cancelled.
clearAll ==
    /\ fileData' = [file1 |-> NullRecord, file2 |-> NullRecord]
    /\ originalFileContents' = [file1 |-> Null, file2 |-> Null]
    /\ originalFileNames' = [file1 |-> Null, file2 |-> Null]
    /\ comparisonResult' = NullRecord
    /\ keyColumnSelect' = updateKeyColumnOptions([file1 |-> NullRecord, file2 |-> NullRecord])
    /\ delimiterSelect' = "auto"
    /\ UNCHANGED <<timers, lastError, call, ret>>

\* The user picks another option of the #keyColumn <select>: the placeholder
\* (value "") or one of the options updateKeyColumnOptions appended.
chooseKeyColumn(i) ==
    LET value == IF i = 0 THEN EmptyStr ELSE keyColumnSelect.options[i]
    IN  /\ value # keyColumnSelect.value
        /\ keyColumnSelect' = [keyColumnSelect EXCEPT !.value = value]
        /\ UNCHANGED <<fileData, originalFileContents, originalFileNames, comparisonResult,
                       delimiterSelect, timers, lastError, call, ret>>

-----------------------------------------------------------------------------
(* Comparison of two loaded files                                          *)

FileName1 == <<"a", ".", "c", "s", "v">>
FileName2 == <<"b", ".", "t", "x", "t">>

HeaderKV == <<"k", ",", "v">>
HeaderKW == <<"k", ",", "w">>
HeaderKC == <<"k", ",">> \o NameConstructor
HeaderPV == NameProto \o <<",", "v">>

Headers1 == {HeaderKV, HeaderPV}
Headers2 == {HeaderKV, HeaderKW, HeaderKC, HeaderPV}

DataLines == { <<"1", ",", "x">>, <<"1", ",">>, <<"2", ",", "x">>, <<",", "x">> }

\* Data lines of the two files together
MaxTotalRows == 5

RECURSIVE JoinLines(_, _)
JoinLines(lines, n) ==
    IF n = 0 THEN EmptyStr ELSE JoinLines(lines, n - 1) \o <<LF>> \o lines[n]

ContentOf(header, body) == header \o JoinLines(body, Len(body))

\* The contents of n data lines under the headers of H
ContentsOf(H, n) == {ContentOf(h, b) : h \in H, b \in [1..n -> DataLines]}

\* The files of the pool that load, by number of data lines, with their parse
\* in auto mode under the file name of their slot
Loaded1 ==
    [n \in 1..(MaxTotalRows - 1) |->
        {f \in {[content |-> c, data |-> parseFile(c, FileName1, "auto")] :
                    c \in ContentsOf(Headers1, n)} : f.data.ok}]

Loaded2 ==
    [n \in 1..(MaxTotalRows - 1) |->
        {f \in {[content |-> c, data |-> parseFile(c, FileName2, "auto")] :
                    c \in ContentsOf(Headers2, n)} : f.data.ok}]

NoCall == [fn |-> "none"]

\* Both files loaded in auto mode, and a key column option selected.
InitCompare ==
    /\ \E n1, n2 \in 1..(MaxTotalRows - 1) :
         /\ n1 + n2 <= MaxTotalRows
         /\ \E f1 \in Loaded1[n1], f2 \in Loaded2[n2] :
              /\ originalFileContents = [file1 |-> f1.content, file2 |-> f2.content]
              /\ fileData = [file1 |-> f1.data, file2 |-> f2.data]
              /\ LET sel == updateKeyColumnOptions([file1 |-> f1.data, file2 |-> f2.data])
                 IN  \E i \in 0..Len(sel.options) :
                       keyColumnSelect =
                           [sel EXCEPT !.value = IF i = 0 THEN EmptyStr ELSE sel.options[i]]
    /\ originalFileNames = [file1 |-> FileName1, file2 |-> FileName2]
    /\ comparisonResult = NullRecord
    /\ delimiterSelect = "auto"
    /\ timers = <<>>
    /\ lastError = "none"
    /\ call = NoCall
    /\ ret = Undecided

NextCompare == compareFiles \/ comparisonTimeout

SpecCompare == InitCompare /\ [][NextCompare]_vars

-----------------------------------------------------------------------------
(* What the comparison is required to return, stated on the rows of the    *)
(* two datasets (not on the maps the code builds).                         *)

Rows1 == fileData.file1.rows
Rows2 == fileData.file2.rows

\* In SpecCompare the selection is not changed after a comparison is started,
\* so the stored result was computed with the selected key column.
KeyColumn == keyColumnSelect.value

HasResult == comparisonResult # NullRecord

\* The callback of a comparison has run: a result is stored or an error shown.
ComparisonRan == HasResult \/ lastError = "comparison error"

\* The key-column value of a row (empty when the row has no such column)
KeyValue(row) == IF KeyColumn \in DOMAIN row THEN row[KeyColumn] ELSE EmptyStr

KeysOf(rows) == {KeyValue(rows[i]) : i \in 1..Len(rows)} \ {EmptyStr}

FirstRowOf(rows, key) == SetMin({i \in 1..Len(rows) : KeyValue(rows[i]) = key})

LastRecord(rows, key) == rows[SetMax({i \in 1..Len(rows) : KeyValue(rows[i]) = key})]

\* A column absent from a record counts as the empty string.
ValueOrEmpty(row, column) == IF column \in DOMAIN row THEN row[column] ELSE EmptyStr

DifferingColumns(row1, row2) ==
    {c \in DOMAIN row1 \cup DOMAIN row2 : ValueOrEmpty(row1, c) # ValueOrEmpty(row2, c)}

EntryKeys(list) == {list[i].key : i \in 1..Len(list)}

OneEntryPerKey(list) == \A i, j \in 1..Len(list) : list[i].key = list[j].key => i = j

InOrderOf(rows, list) ==
    \A i, j \in 1..Len(list) :
        i < j => FirstRowOf(rows, list[i].key) < FirstRowOf(rows, list[j].key)

HasDuplicateKey(rows) ==
    \E i, j \in 1..Len(rows) : i < j /\ KeyValue(rows[i]) = KeyValue(rows[j]) /\ KeyValue(rows[i]) # EmptyStr

HasBlankKey(rows) == \E i \in 1..Len(rows) : KeyValue(rows[i]) = EmptyStr

\* C1: once the comparison has run, a key of both indices is in the changed
\* list exactly when some column of the union of its two records differs
\* (an absent column counting as the empty string), its differences are then
\* exactly the differing columns with old = file-1 value and new = file-2
\* value, and otherwise the key is in the unchanged list.
C1_ChangedExactlyWhenDiffers ==
    /\ ComparisonRan =>
         \A key \in KeysOf(Rows1) \cap KeysOf(Rows2) :
             LET row1 == LastRecord(Rows1, key)
                 row2 == LastRecord(Rows2, key)
                 diff == DifferingColumns(row1, row2)
             IN  /\ HasResult
                 /\ IF diff # {}
                    THEN /\ key \notin EntryKeys(comparisonResult.unchanged)
                         /\ \E i \in 1..Len(comparisonResult.changed) :
                              LET e == comparisonResult.changed[i]
                              IN  /\ e.key = key
                                  /\ DOMAIN e.differences = diff
                                  /\ \A c \in diff :
                                       e.differences[c] = [old |-> ValueOrEmpty(row1, c),
                                                           new |-> ValueOrEmpty(row2, c)]
                    ELSE /\ key \in EntryKeys(comparisonResult.unchanged)
                         /\ key \notin EntryKeys(comparisonResult.changed)
    /\ HasResult =>
         EntryKeys(comparisonResult.changed) \cup EntryKeys(comparisonResult.unchanged)
             \subseteq KeysOf(Rows1) \cap KeysOf(Rows2)

\* C2: the added list holds exactly the keys of index 2 that are not in
\* index 1, once each, in the order of their first rows in dataset 2, each
\* with the record index 2 holds for it (the last row with that key).
C2_AddedList ==
    HasResult =>
        LET added == comparisonResult.added
        IN  /\ EntryKeys(added) = KeysOf(Rows2) \ KeysOf(Rows1)
            /\ OneEntryPerKey(added)
            /\ InOrderOf(Rows2, added)
            /\ \A i \in 1..Len(added) :
                 added[i].data = LastRecord(Rows2, added[i].key) /\ added[i].type = "added"

\* C3: the removed list holds exactly the keys of index 1 that are not in
\* index 2, once each, in the order of their first rows in dataset 1, each
\* with the record index 1 holds for it.
C3_RemovedList ==
    HasResult =>
        LET removed == comparisonResult.removed
        IN  /\ EntryKeys(removed) = KeysOf(Rows1) \ KeysOf(Rows2)
            /\ OneEntryPerKey(removed)
            /\ InOrderOf(Rows1, removed)
            /\ \A i \in 1..Len(removed) :
                 removed[i].data = LastRecord(Rows1, removed[i].key) /\ removed[i].type = "removed"

\* All entries of the four lists of the stored result, as records with a key
\* and the file-1 and file-2 records they carry.
EntryData(e) ==
    IF e.type = "changed" THEN [key |-> e.key, data1 |-> e.data1, data2 |-> e.data2]
    ELSE IF e.type = "added" THEN [key |-> e.key, data1 |-> e.data, data2 |-> e.data]
    ELSE IF e.type = "removed" THEN [key |-> e.key, data1 |-> e.data, data2 |-> e.data]
    ELSE [key |-> e.key, data1 |-> e.data, data2 |-> LastRecord(Rows2, e.key)]

ResultEntries ==
    {EntryData(comparisonResult.added[i]) : i \in 1..Len(comparisonResult.added)}
    \cup {EntryData(comparisonResult.removed[i]) : i \in 1..Len(comparisonResult.removed)}
    \cup {EntryData(comparisonResult.changed[i]) : i \in 1..Len(comparisonResult.changed)}
    \cup {EntryData(comparisonResult.unchanged[i]) : i \in 1..Len(comparisonResult.unchanged)}

\* C4: with a non-blank key repeated in a dataset, once the comparison has
\* run no error was raised, and every entry carries, for its key, the record
\* of the last row with that key (file 1's in removed, changed, unchanged;
\* file 2's in added and as the changed entry's second record).
C4_LastWriteWins ==
    (ComparisonRan /\ (HasDuplicateKey(Rows1) \/ HasDuplicateKey(Rows2))) =>
        /\ lastError = "none"
        /\ HasResult
        /\ \A i \in 1..Len(comparisonResult.added) :
             comparisonResult.added[i].data = LastRecord(Rows2, comparisonResult.added[i].key)
        /\ \A i \in 1..Len(comparisonResult.removed) :
             comparisonResult.removed[i].data = LastRecord(Rows1, comparisonResult.removed[i].key)
        /\ \A i \in 1..Len(comparisonResult.unchanged) :
             comparisonResult.unchanged[i].data =
                 LastRecord(Rows1, comparisonResult.unchanged[i].key)
        /\ \A i \in 1..Len(comparisonResult.changed) :
             LET e == comparisonResult.changed[i]
             IN  e.data1 = LastRecord(Rows1, e.key) /\ e.data2 = LastRecord(Rows2, e.key)

\* C5: no row with an empty or blank key-column value (or without the key
\* column) is in an index, and no entry of the four lists has an empty key
\* or carries such a row.
C5_BlankKeysExcluded ==
    /\ \A rows \in {Rows1, Rows2} :
         LET index == BuildIndex(rows, KeyColumn, Len(rows))
         IN  \A i \in 1..Len(index) :
                 /\ Trim(index[i].key) # EmptyStr
                 /\ KeyValue(index[i].value) = index[i].key
    /\ HasResult =>
         \A e \in ResultEntries :
             /\ Trim(e.key) # EmptyStr
             /\ KeyValue(e.data1) = e.key
             /\ KeyValue(e.data2) = e.key

\* C6: total1 and total2 are the row counts of the two datasets, and the
\* other four counts are the lengths of the four lists.
C6_Stats ==
    HasResult =>
        /\ comparisonResult.stats.total1 = Len(Rows1)
        /\ comparisonResult.stats.total2 = Len(Rows2)
        /\ comparisonResult.stats.added = Len(comparisonResult.added)
        /\ comparisonResult.stats.removed = Len(comparisonResult.removed)
        /\ comparisonResult.stats.changed = Len(comparisonResult.changed)
        /\ comparisonResult.stats.unchanged = Len(comparisonResult.unchanged)

IdenticalFiles == fileData.file1 = fileData.file2

\* C7 as stated: for identical files nothing is added, removed or changed
\* and unchanged.length == total1 == total2.
C7_IdenticalAllUnchanged ==
    (IdenticalFiles /\ HasResult) =>
        /\ comparisonResult.added = <<>>
        /\ comparisonResult.removed = <<>>
        /\ comparisonResult.changed = <<>>
        /\ Len(comparisonResult.unchanged) = comparisonResult.stats.total1
        /\ comparisonResult.stats.total1 = comparisonResult.stats.total2

\* C7 amended: for identical files nothing is added, removed or changed,
\* total1 == total2, and unchanged.length is the number of distinct non-blank
\* key values, which is total1 exactly when no row has a blank or repeated key.
C7_IdenticalUnchangedPerKey ==
    (IdenticalFiles /\ HasResult) =>
        /\ comparisonResult.added = <<>>
        /\ comparisonResult.removed = <<>>
        /\ comparisonResult.changed = <<>>
        /\ comparisonResult.stats.total1 = comparisonResult.stats.total2
        /\ Len(comparisonResult.unchanged) = Cardinality(KeysOf(Rows1))
        /\ (Len(comparisonResult.unchanged) = comparisonResult.stats.total1
              <=> ~(HasBlankKey(Rows1) \/ HasDuplicateKey(Rows1)))

C9_Index1Order ==
    HasResult =>
        /\ InOrderOf(Rows1, comparisonResult.changed)
        /\ InOrderOf(Rows1, comparisonResult.unchanged)

-----------------------------------------------------------------------------
(* Witnesses and the claim as stated, for the comparison                   *)

\* A list of the result has two entries, the first of them for a key whose
\* last row comes after the first row of the second entry's key.
RepeatedKeyAround(rows, list) ==
    \E i, j \in 1..Len(list) :
        /\ i < j
        /\ \E r \in 1..Len(rows) :
             KeyValue(rows[r]) = list[i].key /\ r > FirstRowOf(rows, list[j].key)

C2_Witness ==
    HasResult /\ RepeatedKeyAround(Rows2, comparisonResult.added)

C3_Witness ==
    HasResult /\ RepeatedKeyAround(Rows1, comparisonResult.removed)

C5_Witness ==
    /\ HasResult
    /\ HasBlankKey(Rows1) /\ HasBlankKey(Rows2)
    /\ comparisonResult.added # <<>> /\ comparisonResult.removed # <<>>

C6_Witness ==
    /\ HasResult
    /\ HasBlankKey(Rows1) /\ HasDuplicateKey(Rows2)
    /\ comparisonResult.stats.total1 >
         Len(comparisonResult.removed) + Len(comparisonResult.changed)
           + Len(comparisonResult.unchanged)
    /\ comparisonResult.stats.total2 >
         Len(comparisonResult.added) + Len(comparisonResult.changed)
           + Len(comparisonResult.unchanged)

C7_Witness ==
    /\ IdenticalFiles /\ HasResult
    /\ HasDuplicateKey(Rows1)
    /\ Len(comparisonResult.unchanged) = 1
    /\ comparisonResult.stats.total1 = 2

C9_Witness ==
    /\ HasResult
    /\ \E i, j \in 1..Len(comparisonResult.changed) :
         /\ i < j
         /\ FirstRowOf(Rows2, comparisonResult.changed[j].key)
              < FirstRowOf(Rows2, comparisonResult.changed[i].key)
    /\ RepeatedKeyAround(Rows1, comparisonResult.changed)

-----------------------------------------------------------------------------
(* The delimiter resolver on its own                                       *)

\* Characters of the first line of the sampled contents
MaxFirstLine == 4

SampleChars == {TAB, COMMA, SEMI, PIPE, "a"}

FirstLines == UNION {[1..n -> SampleChars] : n \in 0..MaxFirstLine}

\* A header line, a line break of either kind, and one data line
SampleContents ==
    {first \o eol \o <<"1">> : first \in FirstLines, eol \in {<<LF>>, <<CR, LF>>}}

SampleNames ==
    { <<"a", ".", "c", "s", "v">>, <<"a", ".", "C", "S", "V">>, <<"a", ".", "C", "s", "v">>,
      <<"a", ".", "t", "s", "v">>, <<"a", ".", "T", "s", "V">>,
      <<"a", ".", "t", "x", "t">>, <<"a", ".", "d", "a", "t">>,
      <<"c", "s", "v">>, <<"a", ".", "c", "s", "v", ".", "t", "x", "t">>,
      <<"a", ".", "t", "s", "v", ".", "c", "s", "v">> }

\* The five option values, no selection, and a value that names a method of
\* Object.prototype
SelectValues == {"auto", "tab", "comma", "semicolon", "pipe", "", "constructor"}

\* The state after construction
Constructed ==
    /\ fileData = [file1 |-> NullRecord, file2 |-> NullRecord]
    /\ originalFileContents = [file1 |-> Null, file2 |-> Null]
    /\ originalFileNames = [file1 |-> Null, file2 |-> Null]
    /\ comparisonResult = NullRecord
    /\ keyColumnSelect = [options |-> <<>>, value |-> EmptyStr]
    /\ timers = <<>>
    /\ lastError = "none"

InitDelimiter ==
    /\ Constructed
    /\ delimiterSelect \in SelectValues
    /\ \E c \in SampleContents, f \in SampleNames :
         call = [fn |-> "getDelimiter", content |-> c, filename |-> f]
    /\ ret = Undecided

\* getDelimiter(content, filename) is called and returns.
callGetDelimiter ==
    /\ call.fn = "getDelimiter" /\ ret = Undecided
    /\ ret' = getDelimiter(call.content, call.filename, delimiterSelect)
    /\ UNCHANGED <<fileData, originalFileContents, originalFileNames, comparisonResult,
                   delimiterSelect, keyColumnSelect, timers, lastError, call>>

NextDelimiter == callGetDelimiter

SpecDelimiter == InitDelimiter /\ [][NextDelimiter]_vars

\* name ends in the lower-case suffix, letters compared without regard to case
EndsWithIgnoringCase(name, suffix) ==
    /\ Len(name) >= Len(suffix)
    /\ \A i \in 1..Len(suffix) :
         LET c == name[Len(name) - Len(suffix) + i]
         IN  \/ c = suffix[i]
             \/ \E k \in 1..Len(LowerCase) : LowerCase[k] = suffix[i] /\ UpperCase[k] = c

\* C10: in auto mode a file name ending in .csv (in any letter case) resolves
\* to the comma and one ending in .tsv to the tab, whatever the content.
C10_ExtensionWins ==
    (call.fn = "getDelimiter" /\ ret # Undecided /\ delimiterSelect = "auto") =>
        /\ EndsWithIgnoringCase(call.filename, <<".", "c", "s", "v">>) => ret = COMMA
        /\ EndsWithIgnoringCase(call.filename, <<".", "t", "s", "v">>) => ret = TAB

\* A name in upper case, and a first line with more tabs than commas
C10_Witness ==
    /\ call.fn = "getDelimiter" /\ delimiterSelect = "auto"
    /\ call.filename = <<"a", ".", "C", "S", "V">>
    /\ LET firstLine == SplitLines(call.content)[1]
       IN  CountChar(firstLine, TAB) > CountChar(firstLine, COMMA)
    /\ ret = COMMA

Candidates == {TAB, COMMA, SEMI, PIPE}

\* Position of a candidate in the order tab, comma, semicolon, pipe
Rank(d) == CASE d = TAB -> 1 [] d = COMMA -> 2 [] d = SEMI -> 3 [] d = PIPE -> 4

\* The text before the first line break (\n or \r\n) of the content
FirstLineOf(content) ==
    LET breaks == {i \in 1..Len(content) : content[i] = LF}
        end == IF breaks = {} THEN Len(content) + 1 ELSE SetMin(breaks)
        stop == IF breaks # {} /\ end > 1 /\ content[end - 1] = CR THEN end - 1 ELSE end
    IN  SubSeq(content, 1, stop - 1)

Occurrences(line, d) == Cardinality({i \in 1..Len(line) : line[i] = d})

NoKnownExtension(name) ==
    /\ ~EndsWithIgnoringCase(name, <<".", "c", "s", "v">>)
    /\ ~EndsWithIgnoringCase(name, <<".", "t", "s", "v">>)

GetDelimiterReturned == call.fn = "getDelimiter" /\ ret # Undecided

\* C11: in auto mode with a file name that ends in neither .csv nor .tsv the
\* resolver returns a candidate that occurs most often in the first line of
\* the content; among the candidates that reach the maximum it returns the
\* first in the order tab, comma, semicolon, pipe; with no candidate in the
\* first line it returns the tab.
C11_MostFrequentByPriority ==
    (GetDelimiterReturned /\ delimiterSelect = "auto" /\ NoKnownExtension(call.filename)) =>
        LET line == FirstLineOf(call.content)
        IN  /\ ret \in Candidates
            /\ \A d \in Candidates :
                 /\ Occurrences(line, d) <= Occurrences(line, ret)
                 /\ Rank(d) < Rank(ret) => Occurrences(line, d) < Occurrences(line, ret)
            /\ (\A d \in Candidates : Occurrences(line, d) = 0) => ret = TAB

\* Three commas and one tab in the first line, file name a.txt: the comma
C11_Witness ==
    /\ GetDelimiterReturned /\ delimiterSelect = "auto"
    /\ call.filename = <<"a", ".", "t", "x", "t">>
    /\ Occurrences(FirstLineOf(call.content), COMMA) = 3
    /\ Occurrences(FirstLineOf(call.content), TAB) = 1
    /\ ret = COMMA

\* C12: with the selection tab, comma, semicolon or pipe the resolver returns
\* that character, whatever the content and the file name (a name ending in
\* .csv or .tsv included).
C12_ManualSelectionWins ==
    GetDelimiterReturned =>
        /\ delimiterSelect = "tab" => ret = TAB
        /\ delimiterSelect = "comma" => ret = COMMA
        /\ delimiterSelect = "semicolon" => ret = SEMI
        /\ delimiterSelect = "pipe" => ret = PIPE

\* Semicolon selected for a file named a.csv whose first line holds tabs
C12_Witness ==
    /\ GetDelimiterReturned /\ delimiterSelect = "semicolon"
    /\ call.filename = <<"a", ".", "c", "s", "v">>
    /\ Occurrences(FirstLineOf(call.content), TAB) > 0
    /\ ret = SEMI

\* C13: for every content, file name and selection value (a value outside the
\* five options included) the resolver returns one of tab, comma, semicolon,
\* pipe.  (The resolver has no throwing path: every call returns.)
C13_AlwaysACandidate ==
    GetDelimiterReturned => ret \in Candidates

-----------------------------------------------------------------------------
(* The row parser on its own                                               *)

\* Data lines of a parsed content
MaxDataLines == 3

\* Header lines written with the delimiter d: two names, a repeated name, a
\* single name, an empty last and an empty first field, padded names, and a
\* name that Object.prototype defines as an accessor
HeaderLines(d) ==
    { <<"a", d, "b">>, <<"a", d, "a">>, <<"a">>, <<"a", d>>, <<d, "a">>,
      <<SP, "a", SP, d, "b">>, NameProto \o <<d, "b">> }

\* Data lines written with the delimiter d: full, short, empty first field,
\* empty, blank, only empty fields, padded fields with one field too many
BodyLines(d) ==
    { <<"1", d, "2">>, <<"1">>, <<d, "2">>,
      EmptyStr, <<SP>>, <<d>>, <<SP, "3", SP, d, "4", SP, d, "5">> }

RECURSIVE JoinWith(_, _, _)
JoinWith(lines, eol, n) ==
    IF n = 0 THEN EmptyStr ELSE JoinWith(lines, eol, n - 1) \o eol \o lines[n]

ParseContents ==
    UNION {HeaderLines(d) : d \in Candidates}
    \cup
    UNION { { h \o JoinWith(b, eol, Len(b)) :
                h \in HeaderLines(d),
                b \in UNION {[1..n -> BodyLines(d)] : n \in 1..MaxDataLines},
                eol \in {<<LF>>, <<CR, LF>>} } : d \in Candidates }
    \cup { EmptyStr, <<SP>>, <<LF>>, <<SP, LF, TAB>> }
    \cup
    \* a blank line or a blank before the header line
    UNION { { lead \o h \o <<LF>> \o b :
                lead \in {<<LF>>, <<SP>>}, h \in HeaderLines(d), b \in BodyLines(d) } :
            d \in Candidates }

\* Selection and file name of a call: inference from the content, inference
\* from the extension, and two manual selections
ParseCalls ==
    { <<"auto", <<"a", ".", "t", "x", "t">> >>, <<"auto", <<"a", ".", "c", "s", "v">> >>,
      <<"tab", <<"a", ".", "t", "x", "t">> >>, <<"comma", <<"a", ".", "c", "s", "v">> >> }

\* parseFile has not returned yet
Pending == [pending |-> TRUE]

InitParse ==
    /\ Constructed
    /\ \E c \in ParseContents, p \in ParseCalls :
         /\ delimiterSelect = p[1]
         /\ call = [fn |-> "parseFile", content |-> c, filename |-> p[2]]
    /\ ret = Pending

\* parseFile(content, filename) is called and returns a dataset or throws.
callParseFile ==
    /\ call.fn = "parseFile" /\ ret = Pending
    /\ ret' = parseFile(call.content, call.filename, delimiterSelect)
    /\ UNCHANGED <<fileData, originalFileContents, originalFileNames, comparisonResult,
                   delimiterSelect, keyColumnSelect, timers, lastError, call>>

NextParse == callParseFile

SpecParse == InitParse /\ [][NextParse]_vars

ParseReturned == call.fn = "parseFile" /\ ret # Pending

ParseOk == ParseReturned /\ ret.ok

\* The delimiter the resolver gives for the call
Resolved == getDelimiter(call.content, call.filename, delimiterSelect)

\* Number of lines of the content that hold a character other than white space
NonEmptyLineCount(content) ==
    LET breaks == {i \in 1..Len(content) : content[i] = LF}
        starts == {1} \cup {i + 1 : i \in breaks}
        endOf(st) == SetMin({i \in breaks \cup {Len(content) + 1} : i >= st})
    IN  Cardinality({st \in starts :
            \E i \in st..(endOf(st) - 1) : content[i] \notin WhiteSpace})

\* C14: parseFile fails when the content is empty or all white space and when
\* fewer than 2 non-empty lines remain after trimming; content with at least
\* 2 non-empty lines is never rejected for its line count.
C14_LineCountCheck ==
    ParseReturned =>
        LET n == NonEmptyLineCount(call.content)
        IN  /\ n = 0 => ret = Thrown("file is empty")
            /\ n = 1 => ret = Thrown("header and data rows required")
            /\ n >= 2 => /\ ret # Thrown("file is empty")
                         /\ ret # Thrown("header and data rows required")

\* A header line followed only by blank lines
C14_Witness ==
    /\ ParseReturned
    /\ NonEmptyLineCount(call.content) = 1
    /\ Len(SplitLines(call.content)) = 3
    /\ ret = Thrown("header and data rows required")

\* The line has a field, between two neighbouring delimiters or line ends,
\* that holds nothing but white space.
HasBlankField(line, d) ==
    LET bounds == {0, Len(line) + 1} \cup {i \in 1..Len(line) : line[i] = d}
    IN  \E p, q \in bounds :
            /\ p < q
            /\ \A b \in bounds : ~(p < b /\ b < q)
            /\ \A i \in (p + 1)..(q - 1) : line[i] \in WhiteSpace

\* C15: parseFile fails when a field of the first line, split on the resolved
\* delimiter, is empty after trimming; no returned dataset has an empty
\* header name.  (The first line is that of the trimmed content, section 4.2
\* step 1.)
C15_EmptyHeaderRejected ==
    ParseReturned =>
        /\ (NonEmptyLineCount(call.content) >= 2
              /\ HasBlankField(FirstLineOf(Trim(call.content)), Resolved))
             => ret = Thrown("empty header present")
        /\ ret.ok => \A i \in 1..Len(ret.headers) : ret.headers[i] # EmptyStr

\* A header line "a," with data lines that would parse
C15_Witness ==
    /\ ParseReturned
    /\ FirstLineOf(call.content) = <<"a", COMMA>>
    /\ Resolved = COMMA
    /\ NonEmptyLineCount(call.content) = 3
    /\ ret = Thrown("empty header present")

\* Every character after the first line of the trimmed content is white
\* space or the delimiter: no data line holds a value.
NoDataValues(content, d) ==
    LET t == Trim(content)
    IN  \A i \in (Len(FirstLineOf(t)) + 1)..Len(t) : t[i] \in WhiteSpace \cup {d}

\* C16: a returned dataset has at least 1 header and at least 1 row, and
\* every row has a value that is not empty; when no data row survives,
\* parseFile fails.
C16_NonEmptyDataset ==
    ParseReturned =>
        /\ ret.ok =>
             /\ Len(ret.headers) >= 1
             /\ Len(ret.rows) >= 1
             /\ \A k \in 1..Len(ret.rows) :
                  \E h \in DOMAIN ret.rows[k] : ret.rows[k][h] # EmptyStr
        /\ NoDataValues(call.content, Resolved) => ~ret.ok

\* Two header names and data lines that hold only delimiters
C16_Witness ==
    /\ ParseReturned
    /\ Resolved = COMMA
    /\ FirstLineOf(call.content) = <<"a", COMMA, "b">>
    /\ NonEmptyLineCount(call.content) = 3
    /\ ret = Thrown("no data rows found")

\* The lines of the content: the header line first, then the data lines
ContentLines == SplitLines(Trim(call.content))

\* The trimmed i-th field of the line split on d, empty past the last field
FieldOf(line, d, i) ==
    LET fields == SplitChar(line, d)
    IN  IF i <= Len(fields) THEN Trim(fields[i]) ELSE EmptyStr

DistinctHeaders(headers) ==
    \A i, j \in 1..Len(headers) : headers[i] = headers[j] => i = j

HeaderNames(headers) == {headers[i] : i \in 1..Len(headers)}

\* The record of a line: each header name with the field at its position (at
\* its last position when the name is repeated)
RecordOfLine(line, d, headers) ==
    [h \in HeaderNames(headers) |->
        FieldOf(line, d, SetMax({i \in 1..Len(headers) : headers[i] = h}))]

\* The line is not blank and its record has a value that is not empty.
LineSurvives(line, d, headers) ==
    /\ Trim(line) # EmptyStr
    /\ \E h \in HeaderNames(headers) : RecordOfLine(line, d, headers)[h] # EmptyStr

\* The data lines that are to yield a row, in the order of the content
SurvivingLines(lines, d, headers) ==
    LET Survives(line) == LineSurvives(line, d, headers)
    IN  SelectSeq(Tail(lines), Survives)

\* C17: for each delimiter (the tab included), each surviving data line and
\* each header position i (names distinct) the record's value for header i is
\* the trimmed i-th field of the line split on the delimiter, or empty when
\* the line is shorter; an empty first field stays at position 0 and does not
\* shift the fields after it.
C17_FieldsByPosition ==
    (ParseOk /\ DistinctHeaders(ret.headers)) =>
        LET surv == SurvivingLines(ContentLines, Resolved, ret.headers)
        IN  \A k \in 1..Len(surv) :
                /\ k <= Len(ret.rows)
                /\ \A i \in 1..Len(ret.headers) :
                     ret.headers[i] \in DOMAIN ret.rows[k] =>
                         ret.rows[k][ret.headers[i]] = FieldOf(surv[k], Resolved, i)

\* C18: parseFile drops exactly the data lines that are blank after trimming
\* and those whose record has only empty values, every other data line yields
\* one row, and the keys of every row are the header names.
C18_RowsAndKeys ==
    ParseOk =>
        /\ Len(ret.rows) = Len(SurvivingLines(ContentLines, Resolved, ret.headers))
        /\ \A k \in 1..Len(ret.rows) : DOMAIN ret.rows[k] = HeaderNames(ret.headers)

\* The row holds a value, and each of its values is a trimmed field of the line.
ComesFrom(row, line, d) ==
    LET fields == SplitChar(line, d)
    IN  /\ \E h \in DOMAIN row : row[h] # EmptyStr
        /\ \A h \in DOMAIN row :
             row[h] # EmptyStr => \E i \in 1..Len(fields) : Trim(fields[i]) = row[h]

\* C19: the rows stand in the order of the lines they come from: the rows can
\* be assigned to data lines of the content, each to a line it comes from,
\* so that a later row is assigned a later line.
C19_RowsInLineOrder ==
    ParseOk =>
        \E f \in [1..Len(ret.rows) -> 2..Len(ContentLines)] :
            /\ \A j, k \in 1..Len(ret.rows) : j < k => f[j] < f[k]
            /\ \A k \in 1..Len(ret.rows) : ComesFrom(ret.rows[k], ContentLines[f[k]], Resolved)

\* "a,b", "1,2", a blank line, "3 , 4" (padded): two rows, in that order
C19_Witness ==
    /\ ParseOk
    /\ Resolved = COMMA
    /\ Len(ContentLines) = 4
    /\ Trim(ContentLines[3]) = EmptyStr
    /\ Len(ret.rows) = 2
    /\ ret.rows[1] = [h \in {<<"a">>, <<"b">>} |-> IF h = <<"a">> THEN <<"1">> ELSE <<"2">>]
    /\ ret.rows[2] = [h \in {<<"a">>, <<"b">>} |-> IF h = <<"a">> THEN <<"3">> ELSE <<"4">>]

\* C20: in a returned dataset every row has a string, possibly empty, for
\* every name in headers, also when the line is shorter than the header line
\* and when a header name is repeated.
C20_StringForEveryHeader ==
    ParseOk =>
        \A k \in 1..Len(ret.rows) : \A i \in 1..Len(ret.headers) :
            IsString(Get(ret.rows[k], ret.headers[i]))

HasCRLF(content) ==
    \E i \in 1..(Len(content) - 1) : content[i] = CR /\ content[i + 1] = LF

\* The content with every \r\n written as \n
WithLF(content) ==
    LET keep == {i \in 1..Len(content) :
                    ~(content[i] = CR /\ i < Len(content) /\ content[i + 1] = LF)}
        at(j) == CHOOSE i \in keep : Cardinality({k \in keep : k < i}) = j - 1
    IN  [j \in 1..Cardinality(keep) |-> content[at(j)]]

\* C21: parsing a content with \r\n line endings gives the headers and rows
\* (same values, same order) that parsing it with \n line endings gives, for
\* the same file name and selection; when one fails, so does the other.
C21_SameWithEitherLineEnding ==
    (ParseReturned /\ HasCRLF(call.content)) =>
        LET other == parseFile(WithLF(call.content), call.filename, delimiterSelect)
        IN  /\ ret.ok = other.ok
            /\ ret.ok => ret.headers = other.headers /\ ret.rows = other.rows

\* Three data lines ended by \r\n, the last one empty, two rows returned
C21_Witness ==
    /\ ParseOk
    /\ HasCRLF(call.content)
    /\ call.content[Len(call.content)] = LF
    /\ Len(SplitLines(call.content)) = 4
    /\ Len(ret.rows) = 2

-----------------------------------------------------------------------------
(* A session: loads, delimiter changes, clears and comparisons interleaved *)

SessionName == <<"a", ".", "t", "x", "t">>

\* Headers k and v under the tab, one header "k<TAB>v" under the comma
FileKV == <<"k", TAB, "v", LF, "1", TAB, "2">>
\* Headers k and "v," under the tab (inferred on a tie), an empty header
\* under the comma
FileKVComma == <<"k", TAB, "v", COMMA, LF, "1", TAB, "3">>
\* One header k under every delimiter
FileK == <<"k", LF, "1">>
SessionFiles ==
    {[name |-> SessionName, content |-> c] :
        c \in {FileKV, FileKVComma, FileK}}
    \cup {[name |-> <<"a", ".", "e", "x", "e">>, content |-> FileK]}

SessionSelects == {"auto", "comma"}

InitSession ==
    /\ Constructed
    /\ delimiterSelect = "auto"
    /\ call = NoCall
    /\ ret = Undecided

NextSession ==
    \/ \E slot \in Slots, file \in SessionFiles \cup {NoFile} : handleFile(slot, file)
    \/ \E selected \in SessionSelects \ {delimiterSelect} : reprocessFiles(selected)
    \/ clearAll
    \/ \E i \in 0..Len(keyColumnSelect.options) : chooseKeyColumn(i)
    \/ compareFiles
    \/ comparisonTimeout

SpecSession == InitSession /\ [][NextSession]_vars

BothLoaded == fileData.file1 # NullRecord /\ fileData.file2 # NullRecord

\* C22: when compareFiles is invoked with no key column selected, or with a
\* dataset absent, no comparison is scheduled and the stored result and both
\* datasets stay as they are.
C22_NoComparisonWithoutKeyOrData ==
    [][(compareFiles /\ (keyColumnSelect.value = EmptyStr \/ ~BothLoaded)) =>
          /\ timers' = timers
          /\ comparisonResult' = comparisonResult
          /\ fileData' = fileData]_vars

\* A result is stored, the placeholder option is chosen, and compare is
\* clicked: the prompt is shown, nothing is scheduled, the result stays.
C22_Witness ==
    /\ lastError = "select a key column"
    /\ keyColumnSelect.value = EmptyStr
    /\ BothLoaded
    /\ comparisonResult # NullRecord
    /\ timers = <<>>

\* The headers that occur in both header lists, in the order of the first
HeadersInBoth(headers1, headers2) ==
    LET InBoth(h) == h \in {headers2[i] : i \in 1..Len(headers2)}
    IN  SelectSeq(headers1, InBoth)

C24_FailedLoadKeepsDatasets ==
    [][(\E slot \in Slots, file \in SessionFiles :
            /\ IsValidFile(file.name)
            /\ ~parseFile(file.content, file.name, delimiterSelect).ok
            /\ readerOnload(slot, file))
        => fileData' = fileData]_vars

\* Slot 1 held the dataset of FileK; the load of FileKVComma into it failed
\* under the comma, and the dataset of FileK is still there.
C24_Witness ==
    /\ lastError = "parse error"
    /\ delimiterSelect = "comma"
    /\ originalFileContents.file1 = FileKVComma
    /\ fileData.file1 = parseFile(FileK, SessionName, "comma")

\* C25: after a delimiter change each slot that holds raw text has its
\* dataset replaced by the parse of that text under the new selection, and
\* the stored result is discarded.
C25_ReprocessReplacesAndDiscards ==
    [][(delimiterSelect' # delimiterSelect) =>
          /\ \A slot \in Slots :
                originalFileContents'[slot] # Null =>
                    fileData'[slot] = parseFile(originalFileContents'[slot],
                                                originalFileNames'[slot], delimiterSelect')
          /\ comparisonResult' = NullRecord]_vars

\* Every header name a pooled file can have
SessionKeys ==
    UNION { HeaderNames(d.headers) :
              d \in {p \in {parseFile(f.content, f.name, sel) :
                                f \in SessionFiles, sel \in SessionSelects} : p.ok} }

\* C26: a stored result was computed from the two datasets that are current:
\* it is what the comparison of the current datasets gives for some key
\* column.
C26_ResultOfCurrentDatasets ==
    comparisonResult # NullRecord =>
        /\ BothLoaded
        /\ \E k \in SessionKeys : comparisonResult = performComparison(k)

\* C29: a stored dataset is the parse of the text and the file name retained
\* for its slot under the delimiter selection in force.
C29_DatasetOfRetainedText ==
    \A slot \in Slots :
        fileData[slot] # NullRecord =>
            /\ originalFileContents[slot] # Null
            /\ fileData[slot] = parseFile(originalFileContents[slot],
                                          originalFileNames[slot], delimiterSelect)

-----------------------------------------------------------------------------
(* Further properties of the comparison and of the parser                  *)

\* Number of entries of the list with the key
EntriesWith(list, key) == Cardinality({i \in 1..Len(list) : list[i].key = key})

\* C27: in every result each key of dataset 1 is in exactly one of removed,
\* changed, unchanged and each key of dataset 2 in exactly one of added,
\* changed, unchanged; no key is in two lists or twice in one; so
\* removed + changed + unchanged is the number of distinct non-blank keys of
\* dataset 1, and added + changed + unchanged that of dataset 2.
C27_KeysPartitioned ==
    HasResult =>
        LET r == comparisonResult
            In1(key) == EntriesWith(r.removed, key) + EntriesWith(r.changed, key)
                            + EntriesWith(r.unchanged, key)
            In2(key) == EntriesWith(r.added, key) + EntriesWith(r.changed, key)
                            + EntriesWith(r.unchanged, key)
        IN  /\ \A key \in KeysOf(Rows1) : In1(key) = 1
            /\ \A key \in KeysOf(Rows2) : In2(key) = 1
            /\ \A key \in KeysOf(Rows1) \cup KeysOf(Rows2) :
                 EntriesWith(r.added, key) + In1(key) = 1
            /\ EntryKeys(r.added) \cup EntryKeys(r.removed) \cup EntryKeys(r.changed)
                  \cup EntryKeys(r.unchanged) \subseteq KeysOf(Rows1) \cup KeysOf(Rows2)
            /\ Len(r.removed) + Len(r.changed) + Len(r.unchanged) = Cardinality(KeysOf(Rows1))
            /\ Len(r.added) + Len(r.changed) + Len(r.unchanged) = Cardinality(KeysOf(Rows2))

\* A repeated key in dataset 1, one key removed and one changed
C27_Witness ==
    /\ HasResult
    /\ HasDuplicateKey(Rows1)
    /\ Len(comparisonResult.removed) = 1
    /\ Len(comparisonResult.changed) = 1
    /\ Cardinality(KeysOf(Rows1)) = 2

EntryOf(list, key) == list[CHOOSE i \in 1..Len(list) : list[i].key = key]

\* C30: comparing the datasets the other way round exchanges added and
\* removed, keeps the key sets of changed and unchanged, and exchanges old
\* and new in the differences of every changed entry.
C30_SwapExchangesRoles ==
    HasResult =>
        LET r == comparisonResult
            s == Comparison(Rows2, Rows1, KeyColumn)
        IN  /\ ~s.threw
            /\ EntryKeys(r.added) = EntryKeys(s.removed)
            /\ EntryKeys(r.removed) = EntryKeys(s.added)
            /\ EntryKeys(r.changed) = EntryKeys(s.changed)
            /\ EntryKeys(r.unchanged) = EntryKeys(s.unchanged)
            /\ \A i \in 1..Len(r.changed) :
                 LET d == r.changed[i].differences
                     e == EntryOf(s.changed, r.changed[i].key).differences
                 IN  /\ DOMAIN d = DOMAIN e
                     /\ \A c \in DOMAIN d : d[c].old = e[c].new /\ d[c].new = e[c].old

\* A key only in dataset 2, and a changed key whose records have different
\* columns
C30_Witness ==
    /\ HasResult
    /\ Len(comparisonResult.added) = 1
    /\ Len(comparisonResult.changed) = 1
    /\ DOMAIN comparisonResult.changed[1].data1 # DOMAIN comparisonResult.changed[1].data2

\* The candidate that occurs most often in the line, the first in the order
\* tab, comma, semicolon, pipe among those that do
MostFrequent(line) ==
    CHOOSE d \in Candidates :
        \A e \in Candidates :
            /\ Occurrences(line, e) <= Occurrences(line, d)
            /\ Rank(e) < Rank(d) => Occurrences(line, e) < Occurrences(line, d)

\* C28: in auto mode with a file name that ends in neither .csv nor .tsv the
\* delimiter parseFile splits the header row with is the candidate with the
\* highest count in that header row, also when the content starts with blank
\* lines or white space that parseFile trims away.
C28_DelimiterOfHeaderRow ==
    (ParseOk /\ delimiterSelect = "auto" /\ NoKnownExtension(call.filename)) =>
        ret.delimiter = getDelimiterName(MostFrequent(FirstLineOf(Trim(call.content))))

====
